---------------------------- MODULE Spec2Model ----------------------------
(***************************************************************************)
(* LocalChefBazaar server (src/index.js): the role-elevation workflow and  *)
(* the order lifecycle over the three MongoDB collections users, requests  *)
(* and orders.                                                             *)
(*                                                                         *)
(* Every route handler is an async function; control can pass to another   *)
(* handler only at an await.  A handler with a single store access after   *)
(* its authorization read is one action.  The two handlers that write      *)
(* after having read (PATCH /requests/:id and PATCH /users/fraud/:email)   *)
(* are modelled one await at a time, their locals kept in handlers[p].     *)
(*                                                                         *)
(* src/unnamed/part_000 is an earlier revision of the same server (cookie  *)
(* JWT, no role gates, no fraud route); the model follows src/index.js.    *)
(***************************************************************************)
EXTENDS Integers, Sequences, FiniteSets, TLC

VARIABLES
    usersCollection,     \* email -> account document (DOMAIN = accounts present)
    requestsCollection,  \* sequence of request documents, _id = index
    ordersCollection,    \* sequence of order documents, _id = index
    handlers,            \* in-flight multi-await handlers: slot -> locals
    res                  \* what the last step sent to its caller

vars == <<usersCollection, requestsCollection, ordersCollection, handlers, res>>

stores == <<usersCollection, requestsCollection, ordersCollection>>

-----------------------------------------------------------------------------
(* Bounds of the model *)

MaxRequests == 2
MaxOrders == 2
\* Math.random() is k / RandDenominator for k in RandNumerators
RandDenominator == 9000

RandNumerators == {0, RandDenominator - 1}

(* Identities the identity provider vouches for.  Root is the seeded        *)
(* administrator (no route can create the first admin: every writer of     *)
(* role = "admin" is itself admin-gated).                                  *)
Root == "root@x.com"
Alice == "a@x.com"
Emails == {Root, Alice}

\* a JavaScript value that is not there (a missing field, a missing body key)
undefined == "<undefined>"

Handlers == {1, 2}

-----------------------------------------------------------------------------
(* Responses *)

\* res.status(code).send(body) to the caller of route with path parameter param;
\* res.send(body) is status 200
Send(route, caller, param, code, body) ==
    [route |-> route, caller |-> caller, param |-> param, status |-> code, body |-> body]

\* nothing was sent yet
NoResponse == Send("", "", "", 0, [message |-> ""])

\* the step sent nothing: the handler is suspended at its next await
Pending(route, caller, param) == Send(route, caller, param, 0, [message |-> "pending"])

\* an await rejected or the handler threw: Express 4 sends nothing for a
\* rejected async handler, the caller gets no success response
Thrown(route, caller, param, what) == Send(route, caller, param, 0, [error |-> what])

\* the UpdateResult of collection.updateOne
UpdateResult(matched, modified) ==
    [matchedCount |-> IF matched THEN 1 ELSE 0,
     modifiedCount |-> IF modified THEN 1 ELSE 0]

-----------------------------------------------------------------------------
(* Store operations, as the handlers use them *)

\* usersCollection.findOne({ email }): <<doc>> or <<>> for null
FindUser(users, email) ==
    IF email \in DOMAIN users THEN <<users[email]>> ELSE <<>>

\* IsAdmin with the gate written as user?.role === "user": a chef passes
IsAdminOrChef(user) == user # <<>> /\ user[1].role # "user"

\* user?.role !== "admin" is the negation of this
IsAdmin(user) == user # <<>> /\ user[1].role = "admin"

\* requestsCollection.findOne({ _id }): <<doc>> or <<>> for null
FindRequest(requests, id) ==
    IF id \in DOMAIN requests THEN <<requests[id]>> ELSE <<>>

\* ChefIdOf written as `chef-${Math.floor(Math.random() * 10000)}`
ChefIdOfUnpadded(k) == "chef-" \o ToString((k * 10000) \div RandDenominator)

\* `chef-${Math.floor(1000 + Math.random() * 9000)}` with Math.random() = k / RandDenominator
ChefIdOf(k) == "chef-" \o ToString(1000 + ((k * 9000) \div RandDenominator))

Idle == [pc |-> "idle", caller |-> "", id |-> 0, status |-> "", email |-> "",
         request |-> <<>>, chefId |-> "", updateResult |-> UpdateResult(FALSE, FALSE)]

-----------------------------------------------------------------------------
Init ==
    /\ usersCollection = (Root :> [role |-> "admin", status |-> "active", chefId |-> undefined])
    /\ requestsCollection = <<>>
    /\ ordersCollection = <<>>
    /\ handlers = [p \in Handlers |-> Idle]
    /\ res = NoResponse

-----------------------------------------------------------------------------
(* PUT /users *)

\* MongoDB rejects an update whose $set and $setOnInsert name the same path
\* ("Updating the path 'role' would create a conflict at 'role'")
UpsertConflict(userData) == userData.role # undefined \/ userData.status # undefined

\* updateOne({email}, {$set: {...userData}, $setOnInsert: {role, status}}, {upsert: true})
UpsertUser(users, email, userData) ==
    IF email \in DOMAIN users
    THEN IF userData.chefId # undefined
         THEN [users EXCEPT ![email].chefId = userData.chefId]
         ELSE users
    ELSE users @@ (email :> [role |-> "user", status |-> "active",
                             chefId |-> userData.chefId])

\* WithTokenEmail without the assignment: the body's email keys the write
WithBodyEmail(caller, body) == body

\* userData = req.body; userData.email = req.user.email
WithTokenEmail(caller, body) == [body EXCEPT !.email = caller]

\* the write is keyed by userData.email; the findOne that follows reads the
\* account back for the response.  updatedAt and createdAt are timestamps no
\* other route reads and are left out.
PutUsers(caller, body) ==
    LET userData == WithTokenEmail(caller, body) IN
    /\ IF UpsertConflict(userData)
       THEN /\ UNCHANGED usersCollection
            /\ res' = Thrown("PUT /users", caller, "", "MongoServerError")
       ELSE /\ usersCollection' = UpsertUser(usersCollection, userData.email, userData)
            /\ res' = Send("PUT /users", caller, "", 200,
                           [user |-> usersCollection'[userData.email]])
    /\ UNCHANGED <<requestsCollection, ordersCollection, handlers>>

-----------------------------------------------------------------------------
(* GET /user/role/:email *)

\* NotSelf with the ownership check left out
NotSelfNever(caller, email) == FALSE

\* req.user.email !== req.params.email
NotSelf(caller, email) == caller # email

GetUserRole(caller, email) ==
    /\ IF NotSelf(caller, email)
       THEN res' = Send("GET /user/role/:email", caller, email, 403, [message |-> "Forbidden"])
       ELSE LET user == FindUser(usersCollection, email) IN
            res' = Send("GET /user/role/:email", caller, email, 200,
                        [role |-> IF user # <<>> THEN user[1].role ELSE "user"])
    /\ UNCHANGED <<stores, handlers>>

-----------------------------------------------------------------------------
(* POST /requests *)

\* request = req.body; request.userEmail = req.user.email;
\* request.requestStatus = "pending"
NewRequest(caller, body) ==
    [body EXCEPT !.userEmail = caller, !.requestStatus = "pending"]

PostRequests(caller, body) ==
    /\ Len(requestsCollection) < MaxRequests
    /\ requestsCollection' = Append(requestsCollection, NewRequest(caller, body))
    /\ res' = Send("POST /requests", caller, "", 200, [insertedId |-> Len(requestsCollection')])
    /\ UNCHANGED <<usersCollection, ordersCollection, handlers>>

(* GET /requests *)
GetRequests(caller) ==
    /\ IF ~IsAdmin(FindUser(usersCollection, caller))
       THEN res' = Send("GET /requests", caller, "", 403, [message |-> "Admin only"])
       ELSE res' = Send("GET /requests", caller, "", 200, [requests |-> requestsCollection])
    /\ UNCHANGED <<stores, handlers>>

-----------------------------------------------------------------------------
(* PATCH /requests/:id, one await at a time *)

\* requestsCollection.updateOne({ _id }, { $set: { requestStatus: status } })
SetRequestStatus(requests, id, status) ==
    IF id \in DOMAIN requests
    THEN [requests EXCEPT ![id].requestStatus = status]
    ELSE requests

\* usersCollection.updateOne({ email }, { $set: { role: "chef", chefId } })
SetRoleChef(users, email, chefId) ==
    IF email \in DOMAIN users
    THEN [users EXCEPT ![email].role = "chef", ![email].chefId = chefId]
    ELSE users

\* usersCollection.updateOne({ email }, { $set: { role: "admin" } })
SetRoleAdmin(users, email) ==
    IF email \in DOMAIN users
    THEN [users EXCEPT ![email].role = "admin"]
    ELSE users

\* the role gate: await usersCollection.findOne({ email: req.user.email })
PatchRequestsGate(p, caller, id, status) ==
    /\ handlers[p].pc = "idle"
    /\ IF ~IsAdmin(FindUser(usersCollection, caller))
       THEN /\ res' = Send("PATCH /requests/:id", caller, id, 403, [message |-> "Admin only"])
            /\ UNCHANGED handlers
       ELSE /\ handlers' = [handlers EXCEPT ![p] =
                   [Idle EXCEPT !.pc = "requests.updateOne", !.caller = caller,
                                !.id = id, !.status = status]]
            /\ res' = Pending("PATCH /requests/:id", caller, id)
    /\ UNCHANGED stores

\* StatusIsApproved without the test: every status goes on to the account write
StatusIsAnything(status) == TRUE

\* status === "approved"
StatusIsApproved(status) == status = "approved"

\* await requestsCollection.updateOne(...), then the test of status
PatchRequestsUpdate(p) ==
    LET h == handlers[p]
        found == h.id \in DOMAIN requestsCollection
        updateResult == UpdateResult(found,
                            found /\ requestsCollection[h.id].requestStatus # h.status)
    IN
    /\ h.pc = "requests.updateOne"
    /\ requestsCollection' = SetRequestStatus(requestsCollection, h.id, h.status)
    /\ IF StatusIsApproved(h.status)
       THEN /\ handlers' = [handlers EXCEPT ![p].pc = "requests.findOne",
                                            ![p].updateResult = updateResult]
            /\ res' = Pending("PATCH /requests/:id", h.caller, h.id)
       ELSE /\ handlers' = [handlers EXCEPT ![p] = Idle]
            /\ res' = Send("PATCH /requests/:id", h.caller, h.id, 200, updateResult)
    /\ UNCHANGED <<usersCollection, ordersCollection>>

\* await requestsCollection.findOne(...), then the branch on request.requestType;
\* the chef branch draws its chefId before it awaits the account write
PatchRequestsFind(p, k) ==
    LET h == handlers[p]
        request == FindRequest(requestsCollection, h.id)
    IN
    /\ h.pc = "requests.findOne"
    /\ IF request = <<>>
       THEN \* request is null: request.requestType throws a TypeError
            /\ handlers' = [handlers EXCEPT ![p] = Idle]
            /\ res' = Thrown("PATCH /requests/:id", h.caller, h.id, "TypeError")
       ELSE IF request[1].requestType = "chef"
       THEN /\ handlers' = [handlers EXCEPT ![p].pc = "users.updateOne",
                                            ![p].request = request,
                                            ![p].chefId = ChefIdOf(k)]
            /\ res' = Pending("PATCH /requests/:id", h.caller, h.id)
       ELSE IF request[1].requestType = "admin"
       THEN /\ handlers' = [handlers EXCEPT ![p].pc = "users.updateOne",
                                            ![p].request = request]
            /\ res' = Pending("PATCH /requests/:id", h.caller, h.id)
       ELSE /\ handlers' = [handlers EXCEPT ![p] = Idle]
            /\ res' = Send("PATCH /requests/:id", h.caller, h.id, 200, h.updateResult)
    /\ UNCHANGED stores

\* await usersCollection.updateOne(...), then res.send(updateResult)
PatchRequestsUpdateUser(p) ==
    LET h == handlers[p]
        request == h.request[1]
    IN
    /\ h.pc = "users.updateOne"
    /\ usersCollection' =
          IF request.requestType = "chef"
          THEN SetRoleChef(usersCollection, request.userEmail, h.chefId)
          ELSE SetRoleAdmin(usersCollection, request.userEmail)
    /\ handlers' = [handlers EXCEPT ![p] = Idle]
    /\ res' = Send("PATCH /requests/:id", h.caller, h.id, 200, h.updateResult)
    /\ UNCHANGED <<requestsCollection, ordersCollection>>

\* await usersCollection.updateOne(...) rejects (the store refuses or loses the
\* write): the handler has no try/catch, so it ends at the await, before
\* res.send(updateResult); the status write of the first await stays
PatchRequestsUpdateUserRejects(p) ==
    LET h == handlers[p] IN
    /\ h.pc = "users.updateOne"
    /\ handlers' = [handlers EXCEPT ![p] = Idle]
    /\ res' = Thrown("PATCH /requests/:id", h.caller, h.id, "MongoError")
    /\ UNCHANGED stores

-----------------------------------------------------------------------------
(* PATCH /users/fraud/:email, one await at a time *)

\* usersCollection.updateOne({ email }, { $set: { status: "fraud" } })
SetStatusFraud(users, email) ==
    IF email \in DOMAIN users
    THEN [users EXCEPT ![email].status = "fraud"]
    ELSE users

\* the role gate: await usersCollection.findOne({ email: req.user.email })
PatchUsersFraudGate(p, caller, email) ==
    /\ handlers[p].pc = "idle"
    /\ IF ~IsAdmin(FindUser(usersCollection, caller))
       THEN /\ res' = Send("PATCH /users/fraud/:email", caller, email, 403,
                           [message |-> "Admin access required"])
            /\ UNCHANGED handlers
       ELSE /\ handlers' = [handlers EXCEPT ![p] =
                   [Idle EXCEPT !.pc = "fraud.findOne", !.caller = caller, !.email = email]]
            /\ res' = Pending("PATCH /users/fraud/:email", caller, email)
    /\ UNCHANGED stores

\* TargetIsAdmin without the test of targetUser.role: no target is refused
TargetIsAdminNever(targetUser) == FALSE

\* targetUser.role === "admin"
TargetIsAdmin(targetUser) == targetUser[1].role = "admin"

\* await usersCollection.findOne({ email }), then the two early returns
PatchUsersFraudFind(p) ==
    LET h == handlers[p]
        targetUser == FindUser(usersCollection, h.email)
    IN
    /\ h.pc = "fraud.findOne"
    /\ IF targetUser = <<>>
       THEN /\ handlers' = [handlers EXCEPT ![p] = Idle]
            /\ res' = Send("PATCH /users/fraud/:email", h.caller, h.email, 404,
                           [message |-> "User not found"])
       ELSE IF TargetIsAdmin(targetUser)
       THEN /\ handlers' = [handlers EXCEPT ![p] = Idle]
            /\ res' = Send("PATCH /users/fraud/:email", h.caller, h.email, 400,
                           [message |-> "Cannot mark admin as fraud"])
       ELSE /\ handlers' = [handlers EXCEPT ![p].pc = "fraud.updateOne"]
            /\ res' = Pending("PATCH /users/fraud/:email", h.caller, h.email)
    /\ UNCHANGED stores

\* await usersCollection.updateOne({ email }, ...), then res.send(result)
PatchUsersFraudUpdate(p) ==
    LET h == handlers[p]
        found == h.email \in DOMAIN usersCollection
    IN
    /\ h.pc = "fraud.updateOne"
    /\ usersCollection' = SetStatusFraud(usersCollection, h.email)
    /\ handlers' = [handlers EXCEPT ![p] = Idle]
    /\ res' = Send("PATCH /users/fraud/:email", h.caller, h.email, 200,
                   UpdateResult(found, found /\ usersCollection[h.email].status # "fraud"))
    /\ UNCHANGED <<requestsCollection, ordersCollection>>

-----------------------------------------------------------------------------
(* POST /orders *)

\* NewOrder without order.paymentStatus = "Pending": the body's value is stored
NewOrderKeepsPayment(caller, body) ==
    [body EXCEPT !.userEmail = caller, !.orderStatus = "pending"]

\* NewOrder without order.userEmail = req.user.email: the body's value is stored
NewOrderKeepsEmail(caller, body) ==
    [body EXCEPT !.orderStatus = "pending", !.paymentStatus = "Pending"]

\* order = req.body; order.userEmail = req.user.email;
\* order.orderStatus = "pending"; order.paymentStatus = "Pending"
NewOrder(caller, body) ==
    [body EXCEPT !.userEmail = caller, !.orderStatus = "pending",
                 !.paymentStatus = "Pending"]

PostOrders(caller, body) ==
    /\ Len(ordersCollection) < MaxOrders
    /\ ordersCollection' = Append(ordersCollection, NewOrder(caller, body))
    /\ res' = Send("POST /orders", caller, "", 200, [insertedId |-> Len(ordersCollection')])
    /\ UNCHANGED <<usersCollection, requestsCollection, handlers>>

(* PATCH /orders/:id *)

\* SetOrderStatus under a transition table: delivered and cancelled are final
SetOrderStatusUnlessFinal(orders, id, orderStatus) ==
    IF id \in DOMAIN orders /\ orders[id].orderStatus \notin {"delivered", "cancelled"}
    THEN [orders EXCEPT ![id].orderStatus = orderStatus]
    ELSE orders

\* ordersCollection.updateOne({ _id }, { $set: { orderStatus } })
SetOrderStatus(orders, id, orderStatus) ==
    IF id \in DOMAIN orders
    THEN [orders EXCEPT ![id].orderStatus = orderStatus]
    ELSE orders

PatchOrders(caller, id, orderStatus) ==
    LET found == id \in DOMAIN ordersCollection IN
    /\ ordersCollection' = SetOrderStatus(ordersCollection, id, orderStatus)
    /\ res' = Send("PATCH /orders/:id", caller, id, 200,
                   UpdateResult(found, found /\ ordersCollection[id].orderStatus # orderStatus))
    /\ UNCHANGED <<usersCollection, requestsCollection, handlers>>

(* PATCH /orders/:id/pay *)

\* ordersCollection.updateOne({ _id }, { $set: { paymentStatus: "paid" } })
SetPaid(orders, id) ==
    IF id \in DOMAIN orders
    THEN [orders EXCEPT ![id].paymentStatus = "paid"]
    ELSE orders

PatchOrdersPay(caller, id) ==
    LET found == id \in DOMAIN ordersCollection IN
    /\ ordersCollection' = SetPaid(ordersCollection, id)
    /\ res' = Send("PATCH /orders/:id/pay", caller, id, 200,
                   UpdateResult(found, found /\ ordersCollection[id].paymentStatus # "paid"))
    /\ UNCHANGED <<usersCollection, requestsCollection, handlers>>

-----------------------------------------------------------------------------
(* GET /admin/stats *)

\* countDocuments(filter) over the orders
CountOrders(orders, orderStatus) ==
    Cardinality({i \in DOMAIN orders : orders[i].orderStatus = orderStatus})

\* PaidTotal with total: { $sum: "$price" }: the quantity is left out
RECURSIVE PaidTotalOfPrices(_)
PaidTotalOfPrices(orders) ==
    IF orders = <<>> THEN 0
    ELSE (IF Head(orders).paymentStatus = "paid" THEN Head(orders).price ELSE 0)
         + PaidTotalOfPrices(Tail(orders))

\* [{ $match: { paymentStatus: "paid" } },
\*  { $group: { _id: null, total: { $sum: { $multiply: ["$price", "$quantity"] } } } }]
RECURSIVE PaidTotal(_)
PaidTotal(orders) ==
    IF orders = <<>> THEN 0
    ELSE (IF Head(orders).paymentStatus = "paid"
          THEN Head(orders).price * Head(orders).quantity
          ELSE 0) + PaidTotal(Tail(orders))

GetAdminStats(caller) ==
    /\ IF ~IsAdmin(FindUser(usersCollection, caller))
       THEN res' = Send("GET /admin/stats", caller, "", 403, [message |-> "Admin only"])
       ELSE res' = Send("GET /admin/stats", caller, "", 200,
                        [totalUsers |-> Cardinality(DOMAIN usersCollection),
                         totalOrders |-> Len(ordersCollection),
                         pendingOrders |-> CountOrders(ordersCollection, "pending"),
                         deliveredOrders |-> CountOrders(ordersCollection, "delivered"),
                         totalPayment |-> PaidTotal(ordersCollection)])
    /\ UNCHANGED <<stores, handlers>>

-----------------------------------------------------------------------------
(* Inputs.  Alice is the self-service caller (profile sync, requests,       *)
(* orders); both identities call the gated and the read routes.            *)

UserDataInputs ==
    [email : {undefined, Root}, role : {undefined, "admin"}, status : {undefined, "fraud"},
     chefId : {undefined, "chef-0"}]

RequestBodies ==
    [userEmail : {undefined, Root}, requestType : {"chef", "admin"},
     requestStatus : {undefined, "approved"}]

StatusInputs == {"approved", "rejected"}

\* bodies outside the two enumerations: req.body.requestType and req.body.status
\* are stored as they come
AnyRequestTypes == {"chef", "admin", "moderator"}

AnyStatusInputs == StatusInputs \cup {"archived"}

RequestIds == 1..MaxRequests

OrderBodies ==
    [userEmail : {undefined, Root}, price : {10}, quantity : {1, 2},
     orderStatus : {undefined, "delivered"}, paymentStatus : {undefined, "paid"}]

OrderStatusInputs == {"pending", "delivered", "cancelled"}

OrderIds == 1..MaxOrders

\* the steps of the PATCH /requests/:id and PATCH /users/fraud/:email handler in
\* slot p, the status of the PATCH body drawn from statuses
HandlerStepsOver(p, statuses) ==
    \/ \E caller \in Emails, id \in RequestIds, status \in statuses :
          PatchRequestsGate(p, caller, id, status)
    \/ PatchRequestsUpdate(p)
    \/ \E k \in RandNumerators : PatchRequestsFind(p, k)
    \/ PatchRequestsUpdateUser(p)
    \/ PatchRequestsUpdateUserRejects(p)
    \/ \E caller \in Emails, email \in Emails : PatchUsersFraudGate(p, caller, email)
    \/ PatchUsersFraudFind(p)
    \/ PatchUsersFraudUpdate(p)

HandlerSteps(p) == HandlerStepsOver(p, StatusInputs)

\* the routes over the Account Store and the Elevation Request Ledger
AccountRoutes ==
    \/ \E userData \in UserDataInputs : PutUsers(Alice, userData)
    \/ \E caller \in Emails, email \in Emails : GetUserRole(caller, email)
    \/ \E body \in RequestBodies : PostRequests(Alice, body)
    \/ \E caller \in Emails : GetRequests(caller)
    \/ \E caller \in Emails : GetAdminStats(caller)

\* the routes over the Order Ledger
OrderRoutes ==
    \/ \E body \in OrderBodies : PostOrders(Alice, body)
    \/ \E caller \in Emails, id \in OrderIds, orderStatus \in OrderStatusInputs :
          PatchOrders(caller, id, orderStatus)
    \/ \E caller \in Emails, id \in OrderIds : PatchOrdersPay(caller, id)

\* every route, any two multi-await handlers in flight at once
Next == AccountRoutes \/ OrderRoutes \/ \E p \in Handlers : HandlerSteps(p)

Spec == Init /\ [][Next]_vars

\* the account and request routes, one multi-await handler in flight at a time
NextAccounts == AccountRoutes \/ HandlerSteps(1)

SpecAccounts == Init /\ [][NextAccounts]_vars

\* the routes that reference ordersCollection (POST /orders, PATCH /orders/:id,
\* PATCH /orders/:id/pay, GET /admin/stats) and the profile sync that gives their
\* callers an account; every other action above leaves ordersCollection UNCHANGED
NextOrders ==
    \/ OrderRoutes
    \/ PutUsers(Alice, [email |-> undefined, role |-> undefined, status |-> undefined,
                         chefId |-> undefined])
    \/ \E caller \in Emails : GetAdminStats(caller)

SpecOrders == Init /\ [][NextOrders]_vars

\* two PATCH /requests/:id and PATCH /users/fraud/:email handlers in flight at
\* once, over accounts and requests made by plain profile syncs and submissions
NextConcurrent ==
    \/ PutUsers(Alice, [email |-> undefined, role |-> undefined, status |-> undefined,
                         chefId |-> undefined])
    \/ \E requestType \in {"chef", "admin"} :
          PostRequests(Alice, [userEmail |-> undefined, requestType |-> requestType,
                               requestStatus |-> undefined])
    \/ \E p \in Handlers : HandlerSteps(p)

SpecConcurrent == Init /\ [][NextConcurrent]_vars

\* one handler in flight, both identities submitting chef requests
NextChefs ==
    \/ PutUsers(Alice, [email |-> undefined, role |-> undefined, status |-> undefined,
                         chefId |-> undefined])
    \/ \E caller \in Emails :
          PostRequests(caller, [userEmail |-> undefined, requestType |-> "chef",
                                requestStatus |-> undefined])
    \/ HandlerSteps(1)

SpecChefs == Init /\ [][NextChefs]_vars

\* one handler in flight, over submissions and PATCH bodies of any requestType
\* and any status
NextUnvalidated ==
    \/ PutUsers(Alice, [email |-> undefined, role |-> undefined, status |-> undefined,
                         chefId |-> undefined])
    \/ \E requestType \in AnyRequestTypes :
          PostRequests(Alice, [userEmail |-> undefined, requestType |-> requestType,
                               requestStatus |-> undefined])
    \/ HandlerStepsOver(1, AnyStatusInputs)

SpecUnvalidated == Init /\ [][NextUnvalidated]_vars

-----------------------------------------------------------------------------
(* Properties *)

Terminal(requestStatus) == requestStatus \in {"approved", "rejected"}

\* the account of email exists and its role is admin
RoleIsAdmin(users, email) == email \in DOMAIN users /\ users[email].role = "admin"

\* handler p performs its account write in this step and answers
ApprovalWrites(p) ==
    /\ handlers[p].pc = "users.updateOne"
    /\ handlers'[p].pc = "idle"
    /\ "error" \notin DOMAIN res'.body

\* the account write of handler p rejects in this step
ApprovalWriteRejects(p) ==
    /\ handlers[p].pc = "users.updateOne"
    /\ handlers'[p].pc = "idle"
    /\ "error" \in DOMAIN res'.body

\* the strings chef-1000 .. chef-9999
ChefIdFormat == {"chef-" \o ToString(n) : n \in 1000..9999}

(* C1: an approved or rejected request is absorbing: no step changes it, and *)
(* a PATCH /requests/:id whose status write finds the request already       *)
(* terminal ends there, going on to no account write.                       *)
C1_TerminalAbsorbing ==
    [][ /\ \A id \in DOMAIN requestsCollection :
              Terminal(requestsCollection[id].requestStatus)
                  => requestsCollection'[id] = requestsCollection[id]
        /\ \A p \in Handlers :
              ( /\ handlers[p].pc = "requests.updateOne"
                /\ handlers'[p] # handlers[p]
                /\ handlers[p].id \in DOMAIN requestsCollection
                /\ Terminal(requestsCollection[handlers[p].id].requestStatus) )
                  => handlers'[p].pc = "idle"
      ]_vars

(* C2: once an account holds a chefId, no step changes that value.          *)
C2_ChefIdAssignedOnce ==
    [][ \A email \in DOMAIN usersCollection :
            usersCollection[email].chefId # undefined
                => usersCollection'[email].chefId = usersCollection[email].chefId
      ]_vars

(* C3: no account has role admin together with status fraud.                *)
C3_NoFraudAdmin ==
    \A email \in DOMAIN usersCollection :
        ~(usersCollection[email].role = "admin" /\ usersCollection[email].status = "fraud")

(* C4: an order's paymentStatus is Pending when the order is created and    *)
(* afterwards either stays as it is or goes from Pending to paid; orders    *)
(* are never removed.                                                       *)
C4_PaymentOneWay ==
    [][ /\ \A i \in DOMAIN ordersCollection :
              /\ i \in DOMAIN ordersCollection'
              /\ \/ ordersCollection'[i].paymentStatus = ordersCollection[i].paymentStatus
                 \/ /\ ordersCollection[i].paymentStatus = "Pending"
                    /\ ordersCollection'[i].paymentStatus = "paid"
        /\ \A i \in DOMAIN ordersCollection' \ DOMAIN ordersCollection :
              ordersCollection'[i].paymentStatus = "Pending"
      ]_vars

\* a paid order was marked paid once more and is still paid
C4_Witness ==
    /\ res.route = "PATCH /orders/:id/pay"
    /\ res.status = 200
    /\ res.body.matchedCount = 1
    /\ res.body.modifiedCount = 0
    /\ ordersCollection[res.param].paymentStatus = "paid"

C6_OnlyApprovalWritesRole ==
    [][ (\E email \in DOMAIN usersCollection :
            \/ usersCollection'[email].role # usersCollection[email].role
            \/ usersCollection'[email].chefId # usersCollection[email].chefId)
        => \E p \in Handlers : ApprovalWrites(p)
      ]_vars

GatedRoutes ==
    {"GET /requests", "PATCH /requests/:id", "PATCH /users/fraud/:email", "GET /admin/stats"}

(* C7: the first step of an admin-gated route called by an identity whose   *)
(* account is absent or not an admin answers 403 and changes no store and   *)
(* starts no handler.                                                       *)
C7_GateForbidden ==
    [][ ( /\ res'.route \in GatedRoutes
          /\ \A p \in Handlers : handlers[p].pc # "idle" => handlers'[p] = handlers[p]
          /\ ~RoleIsAdmin(usersCollection, res'.caller) )
        => ( /\ res'.status = 403
             /\ usersCollection' = usersCollection
             /\ requestsCollection' = requestsCollection
             /\ ordersCollection' = ordersCollection
             /\ handlers' = handlers )
      ]_vars

\* a chef was refused the fraud route while a request is on the ledger
C7_Witness ==
    /\ res.route = "PATCH /users/fraud/:email"
    /\ res.status = 403
    /\ res.caller \in DOMAIN usersCollection
    /\ usersCollection[res.caller].role = "chef"
    /\ requestsCollection # <<>>

(* C8: GET /user/role/:email called by an identity other than :email        *)
(* answers 403 and its body carries no role.                                *)
C8_RoleSelfOnly ==
    (res.route = "GET /user/role/:email" /\ res.caller # res.param)
        => (res.status = 403 /\ "role" \notin DOMAIN res.body)

\* the admin asked for the role of an account that is a chef and was refused
C8_Witness ==
    /\ res.route = "GET /user/role/:email"
    /\ res.caller = Root
    /\ RoleIsAdmin(usersCollection, Root)
    /\ res.param = Alice
    /\ Alice \in DOMAIN usersCollection
    /\ usersCollection[Alice].role = "chef"
    /\ res.status = 403

(* C9: the status write of the fraud route never lands on an account whose  *)
(* role is admin at the moment of the write.                                *)
C9_FraudNeverOnAdmin ==
    [][ \A p \in Handlers :
            (handlers[p].pc = "fraud.updateOne" /\ handlers'[p].pc = "idle")
                => ~RoleIsAdmin(usersCollection, handlers[p].email)
      ]_vars

(* C10: an account has a chefId if and only if its role is chef.            *)
C10_ChefIdIffChef ==
    \A email \in DOMAIN usersCollection :
        (usersCollection[email].chefId # undefined) <=> (usersCollection[email].role = "chef")

(* C11: when the account write of an approval rejects after the status      *)
(* write has committed (it matched the request), the request is approved,   *)
(* no account has changed, and the caller of the PATCH gets no success      *)
(* response: never a 200 and an UpdateResult.                               *)
C11_RejectedApprovalWrite ==
    [][ \A p \in Handlers :
            (ApprovalWriteRejects(p) /\ handlers[p].updateResult.matchedCount = 1) =>
                /\ handlers[p].id \in DOMAIN requestsCollection'
                /\ requestsCollection'[handlers[p].id].requestStatus = "approved"
                /\ usersCollection' = usersCollection
                /\ res'.route = "PATCH /requests/:id"
                /\ res'.caller = handlers[p].caller
                /\ res'.status # 200
                /\ "matchedCount" \notin DOMAIN res'.body
      ]_vars

\* the routes that change one order named by :id
OrderMutations == {"PATCH /orders/:id", "PATCH /orders/:id/pay"}

(* C12: a mutation that names an absent record answers 404 and changes no   *)
(* store: PATCH /orders/:id and PATCH /orders/:id/pay on an id that is no   *)
(* order, the status write of PATCH /requests/:id on an id that is no       *)
(* request (whatever the status), and the target read of                    *)
(* PATCH /users/fraud/:email on an email that has no account.               *)
C12_AbsentIsNotFound ==
    [][ /\ (res'.route \in OrderMutations /\ res'.param \notin DOMAIN ordersCollection)
              => (res'.status = 404 /\ stores' = stores)
        /\ \A p \in Handlers :
              ( /\ handlers[p].pc = "requests.updateOne"
                /\ handlers'[p] # handlers[p]
                /\ handlers[p].id \notin DOMAIN requestsCollection )
                  => (res'.status = 404 /\ handlers'[p].pc = "idle" /\ stores' = stores)
        /\ \A p \in Handlers :
              ( /\ handlers[p].pc = "fraud.findOne"
                /\ handlers'[p] # handlers[p]
                /\ handlers[p].email \notin DOMAIN usersCollection )
                  => (res'.status = 404 /\ handlers'[p].pc = "idle" /\ stores' = stores)
      ]_vars

\* the sum of price x quantity over the orders of ids that are paid
RECURSIVE SumOfPaid(_, _)
SumOfPaid(orders, ids) ==
    IF ids = {} THEN 0
    ELSE LET i == CHOOSE i \in ids : TRUE IN
         (IF orders[i].paymentStatus = "paid" THEN orders[i].price * orders[i].quantity ELSE 0)
         + SumOfPaid(orders, ids \ {i})

\* the sum of price x quantity over all paid orders
SumOfAllPaid(orders) == SumOfPaid(orders, DOMAIN orders)

(* C13: the totalPayment that GET /admin/stats answers is the sum of price  *)
(* x quantity over the paid orders (0 without any); PATCH /orders/:id/pay   *)
(* on a Pending order of price p and quantity q raises that sum by p x q,   *)
(* and a pay of an order already paid, and any PATCH /orders/:id, leave it  *)
(* as it is.                                                                *)
C13_TotalPayment ==
    [][ /\ (res'.route = "GET /admin/stats" /\ res'.status = 200)
              => res'.body.totalPayment = SumOfAllPaid(ordersCollection')
        /\ (res'.route = "PATCH /orders/:id/pay" /\ res'.param \in DOMAIN ordersCollection)
              => LET order == ordersCollection[res'.param] IN
                 SumOfAllPaid(ordersCollection') = SumOfAllPaid(ordersCollection)
                     + (IF order.paymentStatus = "Pending"
                        THEN order.price * order.quantity ELSE 0)
        /\ res'.route = "PATCH /orders/:id"
              => SumOfAllPaid(ordersCollection') = SumOfAllPaid(ordersCollection)
      ]_vars

\* the admin reads the stats while an order of price 10 and quantity 2 is paid
\* and another order is not: totalPayment is 20
C13_Witness ==
    /\ res.route = "GET /admin/stats"
    /\ res.status = 200
    /\ res.body.totalPayment = 20
    /\ \E i, j \in DOMAIN ordersCollection :
          /\ ordersCollection[i].paymentStatus = "paid"
          /\ ordersCollection[i].price = 10
          /\ ordersCollection[i].quantity = 2
          /\ ordersCollection[j].paymentStatus = "Pending"
          /\ ordersCollection[j].orderStatus = "delivered"

(* C14: when the fraud route, called by an admin, reads a target account    *)
(* whose role is admin, it answers 400 and ends there: no account, request  *)
(* or order has changed, the target's status included.                      *)
C14_AdminTargetRefused ==
    [][ \A p \in Handlers :
            ( /\ handlers[p].pc = "fraud.findOne"
              /\ handlers'[p] # handlers[p]
              /\ RoleIsAdmin(usersCollection, handlers[p].email) )
                => /\ res'.route = "PATCH /users/fraud/:email"
                   /\ res'.param = handlers[p].email
                   /\ res'.status = 400
                   /\ handlers'[p].pc = "idle"
                   /\ stores' = stores
      ]_vars

\* the seeded admin was refused the fraud mark on an account that an approved
\* admin request had elevated; the account is still active
C14_Witness ==
    /\ res.route = "PATCH /users/fraud/:email"
    /\ res.status = 400
    /\ res.caller = Root
    /\ res.param = Alice
    /\ RoleIsAdmin(usersCollection, Alice)
    /\ usersCollection[Alice].status = "active"
    /\ handlers[1].pc = "idle"

\* the account of email exists and its role is chef or admin
RoleIsChefOrAdmin(users, email) ==
    email \in DOMAIN users /\ users[email].role \in {"chef", "admin"}

(* C15: PATCH /orders/:id called by an identity whose account is absent or  *)
(* has role user changes the orderStatus of no order.                       *)
C15_OrderStatusByChefOrAdmin ==
    [][ (res'.route = "PATCH /orders/:id" /\ ~RoleIsChefOrAdmin(usersCollection, res'.caller))
            => \A i \in DOMAIN ordersCollection :
                   ordersCollection'[i].orderStatus = ordersCollection[i].orderStatus
      ]_vars

(* C16: every request on the ledger has requestType chef or admin and       *)
(* requestStatus pending, approved or rejected.                             *)
C16_RequestsWellFormed ==
    \A id \in DOMAIN requestsCollection :
        /\ requestsCollection[id].requestType \in {"chef", "admin"}
        /\ requestsCollection[id].requestStatus \in {"pending", "approved", "rejected"}

(* C17: POST /orders adds one order whose orderStatus is pending, whose      *)
(* paymentStatus is Pending and whose userEmail is the caller, whatever the *)
(* body holds in those fields, and changes no order already there, no       *)
(* account and no request.                                                  *)
C17_NewOrderForced ==
    [][ res'.route = "POST /orders" =>
            /\ Len(ordersCollection') = Len(ordersCollection) + 1
            /\ LET order == ordersCollection'[Len(ordersCollection')] IN
                  /\ order.orderStatus = "pending"
                  /\ order.paymentStatus = "Pending"
                  /\ order.userEmail = res'.caller
            /\ \A i \in DOMAIN ordersCollection : ordersCollection'[i] = ordersCollection[i]
            /\ usersCollection' = usersCollection
            /\ requestsCollection' = requestsCollection
      ]_vars

\* a second order was just placed while the first is delivered and paid
C17_Witness ==
    /\ res.route = "POST /orders"
    /\ res.status = 200
    /\ res.body.insertedId = 2
    /\ ordersCollection[1].orderStatus = "delivered"
    /\ ordersCollection[1].paymentStatus = "paid"
    /\ ordersCollection[2].orderStatus = "pending"
    /\ ordersCollection[2].paymentStatus = "Pending"
    /\ ordersCollection[2].userEmail = Alice
    /\ Alice \in DOMAIN usersCollection

(* C18: after PUT /users the caller has an account: one that was absent is  *)
(* created with role user and status active, one that was there keeps its   *)
(* role and its status; no other account is created or changed.             *)
C18_UpsertDefaults ==
    [][ res'.route = "PUT /users" =>
            LET caller == res'.caller IN
            /\ DOMAIN usersCollection' = DOMAIN usersCollection \cup {caller}
            /\ IF caller \in DOMAIN usersCollection
               THEN /\ usersCollection'[caller].role = usersCollection[caller].role
                    /\ usersCollection'[caller].status = usersCollection[caller].status
               ELSE /\ usersCollection'[caller].role = "user"
                    /\ usersCollection'[caller].status = "active"
            /\ \A email \in DOMAIN usersCollection \ {caller} :
                   usersCollection'[email] = usersCollection[email]
      ]_vars

(* C19: no two accounts hold the same chefId.                               *)
C19_ChefIdNotShared ==
    \A a, b \in DOMAIN usersCollection :
        (a # b /\ usersCollection[a].chefId # undefined)
            => usersCollection[a].chefId # usersCollection[b].chefId

(* C20: PATCH /orders/:id on an existing order changes its orderStatus      *)
(* whenever the value of the body differs from the current one (the         *)
(* UpdateResult then says modifiedCount 1), from whatever value, to a value *)
(* of the body; every other field of that order, every other order, and     *)
(* every account and request stay as they are.                              *)
C20_OrderStatusOverwritten ==
    [][ (res'.route = "PATCH /orders/:id" /\ res'.param \in DOMAIN ordersCollection) =>
            LET id == res'.param IN
            /\ res'.status = 200
            /\ res'.body.matchedCount = 1
            /\ ordersCollection'[id].orderStatus \in OrderStatusInputs
            /\ res'.body.modifiedCount = 1
                   <=> ordersCollection'[id].orderStatus # ordersCollection[id].orderStatus
            /\ ordersCollection' =
                   [ordersCollection EXCEPT ![id].orderStatus = ordersCollection'[id].orderStatus]
            /\ usersCollection' = usersCollection
            /\ requestsCollection' = requestsCollection
      ]_vars

\* a paid order whose orderStatus had left pending was just set back to pending
\* (orders start pending, so the value overwritten was delivered or cancelled)
C20_Witness ==
    /\ res.route = "PATCH /orders/:id"
    /\ res.param \in DOMAIN ordersCollection
    /\ res.body.modifiedCount = 1
    /\ ordersCollection[res.param].orderStatus = "pending"
    /\ ordersCollection[res.param].paymentStatus = "paid"
    /\ ordersCollection[res.param].quantity = 2
    /\ Len(ordersCollection) = MaxOrders

(* C21: the account write of an approval whose status write matched its     *)
(* request changes an account only while that request is approved: with an  *)
(* approve and a reject of the same                                         *)
(* request in flight together, no interleaving ends with the request        *)
(* rejected and the requester's account changed by it.                      *)
C21_ElevatedOnlyIfApproved ==
    [][ \A p \in Handlers :
            ( /\ ApprovalWrites(p)
              /\ handlers[p].updateResult.matchedCount = 1
              /\ usersCollection' # usersCollection )
                => /\ handlers[p].id \in DOMAIN requestsCollection'
                   /\ requestsCollection'[handlers[p].id].requestStatus = "approved"
      ]_vars

(* C22: a PATCH /requests/:id whose status is not approved ends at its       *)
(* status write: that step answers, changes no account (and no order), and  *)
(* leaves no account write to come.                                         *)
C22_OtherStatusNoAccountWrite ==
    [][ \A p \in Handlers :
            ( /\ handlers[p].pc = "requests.updateOne"
              /\ handlers'[p] # handlers[p]
              /\ handlers[p].status # "approved" )
                => /\ usersCollection' = usersCollection
                   /\ ordersCollection' = ordersCollection
                   /\ handlers'[p].pc = "idle"
                   /\ res'.route = "PATCH /requests/:id"
                   /\ res'.status = 200
      ]_vars

\* a pending chef request was just rejected; its requester is still a plain user
C22_Witness ==
    /\ res.route = "PATCH /requests/:id"
    /\ res.status = 200
    /\ res.body.modifiedCount = 1
    /\ res.param \in DOMAIN requestsCollection
    /\ requestsCollection[res.param].requestStatus = "rejected"
    /\ requestsCollection[res.param].requestType = "chef"
    /\ LET email == requestsCollection[res.param].userEmail IN
          /\ email \in DOMAIN usersCollection
          /\ usersCollection[email].role = "user"
          /\ usersCollection[email].chefId = undefined
          /\ usersCollection[email].status = "active"

(* C23: PUT /users creates or changes no account but the caller's: every    *)
(* account of another email is there before and after, and the same.        *)
C23_PutUsersOwnAccountOnly ==
    [][ res'.route = "PUT /users" =>
            \A email \in (DOMAIN usersCollection \cup DOMAIN usersCollection') \ {res'.caller} :
                /\ email \in DOMAIN usersCollection
                /\ email \in DOMAIN usersCollection'
                /\ usersCollection'[email] = usersCollection[email]
      ]_vars

\* a PUT /users of a@x.com has just written a chefId into a@x.com's account
\* and the seeded admin's account is as it was
C23_Witness ==
    /\ res.route = "PUT /users"
    /\ res.status = 200
    /\ res.caller = Alice
    /\ res.body.user.chefId = "chef-0"
    /\ usersCollection[Alice].chefId = "chef-0"
    /\ usersCollection[Root] = [role |-> "admin", status |-> "active", chefId |-> undefined]
    /\ DOMAIN usersCollection = {Root, Alice}

(* C24: an account whose role is admin has role admin after every step, and *)
(* a state with an admin is never followed by a state without one.          *)
C24_AdminStaysAdmin ==
    [][ /\ \A email \in DOMAIN usersCollection :
              usersCollection[email].role = "admin"
                  => RoleIsAdmin(usersCollection', email)
        /\ (\E email \in DOMAIN usersCollection : usersCollection[email].role = "admin")
              => \E email \in DOMAIN usersCollection' : usersCollection'[email].role = "admin"
      ]_vars

=============================================================================
